---- MODULE Spec2Model ----
(***************************************************************************)
(* Model of fetch_and_write_excel.py: one run of main(), from the          *)
(* reference-list fetch to the spreadsheet, and the functions it calls.    *)
(*                                                                         *)
(* Representation.  A Python string is a sequence of tokens; a token is a  *)
(* piece of text that the program's substring tests never cut in two, so   *)
(* "x in s" is "some token of s is x", s.lower() maps each token to its    *)
(* lower-case form and s.startswith("http") looks at the first token.      *)
(* A percentage is kept in hundredths (4000 is 40.00).                     *)
(***************************************************************************)
EXTENDS Integers, Sequences, FiniteSets, TLC

VARIABLES
    pc,             \* position in main(): the stage that runs next
    env_url,        \* os.getenv(REPORT_CSV_ENV): [set |-> BOOLEAN, value |-> string]
    requests,       \* every HTTP request issued so far, with its response
    nifty_symbols,  \* main's nifty_symbols
    page,           \* discover_csv_link: the hrefs of the listing page's anchors
    csv_link,       \* main's csv_link
    csv_text,       \* main's csv_text: the downloaded body
    raw,            \* the quantity cells lines 99-100 read, one record per row
    df,             \* main's df: the normalized report
    df_nifty,       \* main's df_nifty: the filtered report
    stdout,         \* what main has printed
    exit_status,    \* the process's exit status, -1 while it runs
    out_file,       \* OUT_FILE: [written |-> BOOLEAN, rows |-> the rows in it]
    err             \* the exception main's except clause caught

vars == <<pc, env_url, requests, nifty_symbols, page, csv_link, csv_text, raw,
          df, df_nifty, stdout, exit_status, out_file, err>>

-----------------------------------------------------------------------------
(* Bounds of the model.                                                    *)

MaxLinks == 2   \* anchors on the listing page
MaxCols == 3    \* columns of the deliverable CSV
MaxRows == 2    \* data rows of a downloaded CSV
MaxUnitRows == 3  \* rows of a report handed to the stages past line 98

-----------------------------------------------------------------------------
(* Strings.                                                                *)

RECURSIVE SeqsUpTo(_, _)
SeqsUpTo(S, n) ==
    IF n = 0 THEN {<<>>}
    ELSE LET shorter == SeqsUpTo(S, n - 1)
         IN  shorter \cup {Append(s, x) : s \in {t \in shorter : Len(t) = n - 1}, x \in S}

Range(s) == {s[i] : i \in 1..Len(s)}

\* str.lower() on one token.
LowerTok(t) ==
    CASE t = ".CSV" -> ".csv"
      [] t = "Deliver" -> "deliver"
      [] t = "DELIVER" -> "deliver"
      [] t = "Security" -> "security"
      [] t = "SYMBOL" -> "symbol"
      [] t = "Symbol" -> "symbol"
      [] t = "SERIES" -> "series"
      [] t = "Series" -> "series"
      [] t = "TRADED" -> "traded"
      [] t = "Traded" -> "traded"
      [] t = "QUANTITY" -> "quantity"
      [] t = "Quantity" -> "quantity"
      [] t = "QTY" -> "qty"
      [] t = "Qty" -> "qty"
      [] t = "Date" -> "date"
      [] t = "DATE" -> "date"
      [] t = "Del" -> "del"
      [] t = "Amount" -> "amount"
      [] t = "DELIV_PER" -> "deliv_per"
      [] t = "TOTAL" -> "total"
      [] t = "ed" -> "ed"
      [] t = "MTO" -> "mto"
      [] OTHER -> t

\* str.upper() on one token.
UpperTok(t) ==
    CASE t = "tcs" -> "TCS"
      [] t = "infy" -> "INFY"
      [] t = "wipro" -> "WIPRO"
      [] t = "Tcs" -> "TCS"
      [] OTHER -> t

Lower(s) == [i \in 1..Len(s) |-> LowerTok(s[i])]
Upper(s) == [i \in 1..Len(s) |-> UpperTok(s[i])]

\* sub in s
Contains(s, sub) == \E i \in 1..Len(s) : s[i] = sub

\* str.strip(): leading and trailing blanks removed.
RECURSIVE Strip(_)
Strip(s) ==
    IF Len(s) = 0 THEN s
    ELSE IF Head(s) = " " THEN Strip(Tail(s))
    ELSE IF s[Len(s)] = " " THEN Strip(SubSeq(s, 1, Len(s) - 1))
    ELSE s

-----------------------------------------------------------------------------
(* Module constants and the request headers.                               *)

USER_AGENT == "Mozilla/5.0 (Windows NT 10.0; Win64; x64) AppleWebKit/537.36 (KHTML, like Gecko) Chrome/120 Safari/537.36"
NIFTY50_CSV == <<"https://", "www.niftyindices.com", "/", "IndexConstituent", "/", "ind_nifty50list", ".csv">>
REPORT_PAGE_URL == <<"https://", "www.nseindia.com", "/", "report-detail", "/", "eq_security">>
SITE_ROOT == <<"https://", "www.nseindia.com">>
SITE_REFERER == "https://www.nseindia.com"
MinBodyLen == 50

\* request headers: a function from header name to value
NoHeaders == [n \in {} |-> ""]

\* requests merges the headers given with a call over the session's.
MergeHeaders(base, over) ==
    [n \in DOMAIN base \cup DOMAIN over |-> IF n \in DOMAIN over THEN over[n] ELSE base[n]]

\* SessionHeaders without the Referer
SessionHeaders_NoReferer ==
    [n \in {"User-Agent", "Accept"} |->
        IF n = "User-Agent" THEN USER_AGENT
        ELSE "text/html,application/xhtml+xml,application/xml;q=0.9,*/*;q=0.8"]

\* session_with_headers(): the headers every session request starts from
SessionHeaders ==
    [n \in {"User-Agent", "Accept", "Referer"} |->
        CASE n = "User-Agent" -> USER_AGENT
          [] n = "Accept" -> "text/html,application/xhtml+xml,application/xml;q=0.9,*/*;q=0.8"
          [] n = "Referer" -> SITE_REFERER]

\* fetch_nifty50_symbols: requests.get(..., headers={"User-Agent": USER_AGENT}), no session
ReferenceHeaders == MergeHeaders(NoHeaders, [n \in {"User-Agent"} |-> USER_AGENT])

\* download_csv_text: session.get(csv_url, headers={User-Agent, Referer})
DownloadHeaders ==
    MergeHeaders(SessionHeaders,
                 [n \in {"User-Agent", "Referer"} |->
                     IF n = "User-Agent" THEN USER_AGENT ELSE SITE_REFERER])

-----------------------------------------------------------------------------
(* HTTP responses.                                                         *)

\* The statuses a response can carry; got = FALSE is a request that raised
\* (timeout, connection error) instead of returning a response.
Statuses == {200, 300, 404}
NoResponse == [got |-> FALSE, status |-> 0]
Outcomes == {NoResponse} \cup {[got |-> TRUE, status |-> s] : s \in Statuses}

\* Response.raise_for_status(): raises for a 4xx or 5xx status
RaisesForStatus(status) == status >= 400 /\ status < 600

-----------------------------------------------------------------------------
(* CSV text.  A CSV is its header row and its data rows; a row holds one   *)
(* cell per header.  A body shorter than MinBodyLen characters has len     *)
(* below it, whatever it holds.                                            *)

EmptyCsv == [header |-> <<>>, rows |-> <<>>]

\* The reference lists the index site may serve.
ReferenceCsvs ==
    { [header |-> << <<"Company", " ", "Name">>, <<"Symbol">>, <<"Series">> >>,
       rows |-> << << <<"Tata">>, <<" ", "tcs">>, <<"EQ">> >>,
                   << <<"Infosys">>, <<"INFY", " ">>, <<"EQ">> >>,
                   << <<"Tata">>, <<"TCS">>, <<"EQ">> >> >>],
      [header |-> << <<"SYMBOL">>, <<"Symbol", " ", "Series">> >>,
       rows |-> << << <<"WIPRO">>, <<"tcs">> >> >>],
      [header |-> << <<"Company", " ", "Name">>, <<"Series">> >>,
       rows |-> << << <<"Tata">>, <<"EQ">> >> >>] }

\* The header names a deliverable CSV may carry, in the order they appear.
HeaderPool ==
    << <<"SYMBOL">>,
       <<"Symbol", " ", "Series">>,
       <<"Traded", " ", "Qty">>,
       <<"TOTAL", " ", "TRADED", " ", "QUANTITY">>,
       <<"Deliver", "able", " ", "Qty">>,
       <<"Qty", " ", "Deliver", "ed">>,
       <<"Del", ".", " ", "Amount">>,
       <<"DELIV_PER">> >>

\* The cell of data row i under header h.
CellOf(h, i) ==
    LET k == ((i - 1) % 3) + 1
    IN  CASE h = <<"SYMBOL">> -> << <<"TCS">>, <<"INFY">>, <<" ", "wipro">> >>[k]
          [] h = <<"Symbol", " ", "Series">> -> <<"EQ">>
          [] h = <<"Traded", " ", "Qty">> ->
                << <<"1", ",", "0", "0", "0">>, <<"0">>, <<"5", "0", "0">> >>[k]
          [] h = <<"TOTAL", " ", "TRADED", " ", "QUANTITY">> ->
                << <<"2", "0", "0", "0">>, <<"abc">>, <<"-", "5">> >>[k]
          [] h = <<"Deliver", "able", " ", "Qty">> ->
                << <<"4", "0", "0">>, <<"0">>, <<"2", "5", "0">> >>[k]
          [] h = <<"Qty", " ", "Deliver", "ed">> ->
                << <<"8", "0", "0">>, <<>>, <<"9">> >>[k]
          [] h = <<"Del", ".", " ", "Amount">> -> <<"7">>
          [] OTHER -> <<"9", "9", ".", "9">>

\* The header rows of at most n columns: the sub-sequences of HeaderPool.
HeaderRows(n) ==
    { SelectSeq(HeaderPool, LAMBDA h : h \in S) :
        S \in {T \in SUBSET Range(HeaderPool) : Cardinality(T) <= n} }

\* The deliverable CSVs of at most n columns and m rows.
DeliverableCsvs(n, m) ==
    { [header |-> hs,
       rows |-> [i \in 1..k |-> [j \in 1..Len(hs) |-> CellOf(hs[j], i)]]] :
        hs \in HeaderRows(n), k \in 0..m }

\* The bodies a download may return: short ones, and CSVs of plausible size.
Bodies ==
    {[len |-> l, csv |-> EmptyCsv] : l \in {0, MinBodyLen - 1}}
        \cup {[len |-> MinBodyLen, csv |-> c] : c \in DeliverableCsvs(MaxCols, MaxRows)}

-----------------------------------------------------------------------------
(* fetch_nifty50_symbols                                                   *)

NoCol == <<>>   \* None

\* lines 36-40: the first column whose lower-cased name contains "symbol"
RECURSIVE FirstSymbolColumn(_, _)
FirstSymbolColumn(columns, i) ==
    IF i > Len(columns) THEN 0
    ELSE IF Contains(Lower(columns[i]), "symbol") THEN i
    ELSE FirstSymbolColumn(columns, i + 1)

\* line 43-44: the distinct stripped upper-cased values of column c
SymbolSet(csv, c) == {Upper(Strip(csv.rows[i][c])) : i \in 1..Len(csv.rows)}

-----------------------------------------------------------------------------
(* discover_csv_link                                                       *)

\* The hrefs the listing page's anchors may carry.
HrefPool ==
    { <<"/", "a", "/", "foo", ".csv">>,
      <<"/", "b", "/", "security", "-", "deliver", "able", ".csv">>,
      <<"https://", "archives.nseindia.com", "/", "MTO", ".CSV">>,
      <<"https://", "archives.nseindia.com", "/", "Deliver", "y", ".csv">>,
      <<"/", "index", ".html">>,
      <<"/", "security", ".pdf">> }

Pages == SeqsUpTo(HrefPool, MaxLinks)

\* The values REPORT_CSV_URL may have: unset, empty, a URL.
EnvUrls ==
    { [set |-> FALSE, value |-> <<>>],
      [set |-> TRUE, value |-> <<>>],
      [set |-> TRUE, value |-> <<"https://", "example.org", "/", "mto", ".csv">>] }

\* EnvUrlGiven as "env_url is not None": the empty string counts as given
EnvUrlGiven_NotNone(e) == e.set

\* line 48: "if env_url" is false for None and for the empty string
EnvUrlGiven(e) == e.set /\ Len(e.value) > 0

\* href.startswith("http")
StartsWithHttp(href) == Len(href) > 0 /\ Head(href) \in {"http://", "https://"}

\* CsvLinks without the .lower(): ".CSV" is no longer a candidate
CsvLinks_CaseSensitive(hrefs) == SelectSeq(hrefs, LAMBDA h : Contains(h, ".csv"))

\* lines 54-58: the hrefs containing ".csv" once lower-cased, in document order
CsvLinks(hrefs) == SelectSeq(hrefs, LAMBDA h : Contains(Lower(h), ".csv"))

\* requests.compat.urljoin(root, href) for a path
Urljoin(base, href) ==
    IF Len(href) > 0 /\ Head(href) = "/" THEN base \o href ELSE base \o <<"/">> \o href

\* lines 59-64
Full(csv_links) ==
    [i \in 1..Len(csv_links) |->
        IF StartsWithHttp(csv_links[i]) THEN csv_links[i]
        ELSE Urljoin(SITE_ROOT, csv_links[i])]

\* line 67
IsKeywordLink(link) ==
    Contains(Lower(link), "deliver") \/ Contains(Lower(link), "security")

\* lines 65-68: the index of the first keyword link of full from i on, 0 if none
RECURSIVE KeywordLoop(_, _)
KeywordLoop(full, i) ==
    IF i > Len(full) THEN 0
    ELSE IF IsKeywordLink(full[i]) THEN i
    ELSE KeywordLoop(full, i + 1)

\* lines 53-71: [found |-> a link was chosen, link |-> the link]
ChooseLink(hrefs) ==
    LET full == Full(CsvLinks(hrefs))
        k == KeywordLoop(full, 1)
    IN  IF k > 0 THEN [found |-> TRUE, link |-> full[k]]
        ELSE IF Len(full) > 0 THEN [found |-> TRUE, link |-> full[1]]
        ELSE [found |-> FALSE, link |-> <<>>]

-----------------------------------------------------------------------------
(* download_csv_text                                                       *)

\* DownloadStatusBad as raise_for_status would decide it
DownloadStatusBad_ErrorsOnly(status) == status >= 400

\* line 76
DownloadStatusBad(status) == status # 200

\* line 78: "not r.text or len(r.text) < 50"
BodyTooSmall(len) == len = 0 \/ len < MinBodyLen

-----------------------------------------------------------------------------
(* parse_deliverable_csv: column resolution                                *)

\* line 84: cols = {c.lower(): c for c in df.columns}.  A dict keeps a key at
\* the place of its first insertion and the value of its last.
DictKeys(columns) ==
    SelectSeq([i \in 1..Len(columns) |-> i],
              LAMBDA i : \A j \in 1..(i - 1) : Lower(columns[j]) # Lower(columns[i]))

DictValue(columns, i) ==
    LET last == CHOOSE j \in 1..Len(columns) :
                    /\ Lower(columns[j]) = Lower(columns[i])
                    /\ \A l \in (j + 1)..Len(columns) : Lower(columns[l]) # Lower(columns[i])
    IN  columns[last]

\* IsSymbolKey without the exclusion of "series"
IsSymbolKey_NoSeries(k) == Contains(k, "symbol")

\* line 89
IsSymbolKey(k) == Contains(k, "symbol") /\ ~Contains(k, "series")
\* line 91
IsTradedKey(k) == Contains(k, "traded") /\ (Contains(k, "qty") \/ Contains(k, "quantity"))
\* line 93
IsDeliverKey(k) == Contains(k, "deliver") /\ (Contains(k, "qty") \/ Contains(k, "quantity"))

\* lines 88-94: the loop assigns at every matching key, so the column of
\* the last matching key stays; hits are the places in DictKeys that match.
LastColumn(columns, hits) ==
    IF hits = {} THEN NoCol
    ELSE DictValue(columns, DictKeys(columns)[CHOOSE n \in hits : \A m \in hits : m <= n])

\* the key at place n of the dict
KeyAt(columns, n) == Lower(columns[DictKeys(columns)[n]])
KeyPlaces(columns) == 1..Len(DictKeys(columns))

SymCol(columns) ==
    LastColumn(columns, {n \in KeyPlaces(columns) : IsSymbolKey(KeyAt(columns, n))})
TradedCol(columns) ==
    LastColumn(columns, {n \in KeyPlaces(columns) : IsTradedKey(KeyAt(columns, n))})
DeliverCol(columns) ==
    LastColumn(columns, {n \in KeyPlaces(columns) : IsDeliverKey(KeyAt(columns, n))})

\* line 95
ColumnsMissing(columns) ==
    SymCol(columns) = NoCol \/ TradedCol(columns) = NoCol \/ DeliverCol(columns) = NoCol

-----------------------------------------------------------------------------
(* parse_deliverable_csv: the numeric columns, lines 99-102                *)

Digits == <<"0", "1", "2", "3", "4", "5", "6", "7", "8", "9">>
IsDigit(t) == \E i \in 1..Len(Digits) : Digits[i] = t
DigitVal(t) == (CHOOSE i \in 1..Len(Digits) : Digits[i] = t) - 1

RECURSIVE DecValue(_)
DecValue(ds) ==
    IF Len(ds) = 0 THEN 0
    ELSE 10 * DecValue(SubSeq(ds, 1, Len(ds) - 1)) + DigitVal(ds[Len(ds)])

\* .str.replace(',', '')
StripCommas(cell) == SelectSeq(cell, LAMBDA t : t # ",")

\* pd.to_numeric(..., errors='coerce') on one cell: a sign, digits, and at
\* most one point; anything else (and a missing cell) is NaN.
ToNumeric(cell) ==
    LET signed == Len(cell) > 0 /\ Head(cell) \in {"-", "+"}
        body == IF signed THEN Tail(cell) ELSE cell
        dots == {i \in 1..Len(body) : body[i] = "."}
        dot == IF dots = {} THEN Len(body) + 1 ELSE CHOOSE i \in dots : TRUE
        whole == SubSeq(body, 1, dot - 1)
        frac == SubSeq(body, dot + 1, Len(body))
        ok == /\ Cardinality(dots) <= 1
              /\ Len(whole) + Len(frac) > 0
              /\ \A i \in 1..Len(whole) : IsDigit(whole[i])
              /\ \A i \in 1..Len(frac) : IsDigit(frac[i])
    IN  [nan |-> ~ok,
         neg |-> signed /\ Head(cell) = "-",
         whole |-> IF ok THEN DecValue(whole) ELSE 0]

\* lines 99, 100: to_numeric(...).fillna(0).astype(int); astype(int) drops
\* the fraction.
QtyOf(cell) ==
    LET v == ToNumeric(StripCommas(cell))
    IN  IF v.nan THEN 0 ELSE IF v.neg THEN 0 - v.whole ELSE v.whole

\* n / m rounded to the nearest integer, a tie to the even one (numpy's round)
RoundHalfEven(n, m) ==
    LET a == IF n < 0 THEN 0 - n ELSE n
        b == IF m < 0 THEN 0 - m ELSE m
        q == a \div b
        r == a % b
        up == 2 * r > b \/ (2 * r = b /\ q % 2 = 1)
        mag == IF up THEN q + 1 ELSE q
    IN  IF (n < 0) = (m < 0) THEN mag ELSE 0 - mag

\* lines 101, 102, in hundredths: a zero TradedQty becomes NA, the quotient
\* NA, and fillna(0) makes it 0; round(2) rounds the rest.
PctOf(deliveryQty, tradedQty) ==
    IF tradedQty = 0 THEN 0 ELSE RoundHalfEven(deliveryQty * 10000, tradedQty)

\* line 111: datetime.utcnow().strftime("%Y-%m-%d")
Today == <<"2026-11-05">>

\* A DataFrame: its index labels and its rows.
EmptyFrame == [index |-> <<>>, rows |-> <<>>]
RangeIndex(n) == [i \in 1..n |-> i - 1]

\* lines 97-112 past line 98: the report built from the resolved columns
NumericColumns(cells) ==
    [index |-> RangeIndex(Len(cells)),
     rows |-> [i \in 1..Len(cells) |->
                LET t == QtyOf(cells[i].traded)
                    d == QtyOf(cells[i].deliver)
                IN  [Date |-> Today, Symbol |-> cells[i].Symbol,
                     TradedQty |-> t, DeliveryQty |-> d, DeliveryPct |-> PctOf(d, t)]]]

-----------------------------------------------------------------------------
(* filter_nifty50 and write_excel                                          *)

\* line 115
UpperSymbols(frame) ==
    [frame EXCEPT !.rows = [i \in 1..Len(frame.rows) |->
                               [frame.rows[i] EXCEPT !.Symbol = Upper(@)]]]

\* line 116: out_df[out_df['Symbol'].isin(nifty_symbols)]
IsinRows(frame, symbols) ==
    LET keep == SelectSeq([i \in 1..Len(frame.rows) |-> i],
                          LAMBDA i : frame.rows[i].Symbol \in symbols)
    IN  [index |-> [k \in 1..Len(keep) |-> frame.index[keep[k]]],
         rows |-> [k \in 1..Len(keep) |-> frame.rows[keep[k]]]]

\* ResetIndex left out: the rows keep the labels they had
ResetIndex_Keep(frame) == frame

\* line 116: .reset_index(drop=True)
ResetIndex(frame) == [frame EXCEPT !.index = RangeIndex(Len(frame.rows))]

filter_nifty50(out_df, symbols) == ResetIndex(IsinRows(UpperSymbols(out_df), symbols))

\* line 119: to_excel(path, sheet_name='Delivery', index=False)
write_excel(frame) == [written |-> TRUE, sheet |-> "Delivery", rows |-> frame.rows]

NoFile == [written |-> FALSE, sheet |-> "", rows |-> <<>>]

-----------------------------------------------------------------------------
(* main: one action per stage.  A stage that raises ends in main's except  *)
(* clause (lines 138-140) within the same action.                          *)

NoError == [kind |-> "none", found |-> <<>>]
Error(kind) == [kind |-> kind, found |-> <<>>]
\* line 96: the message lists df.columns
SchemaError(columns) == [kind |-> "Schema", found |-> columns]

Request(kind, url, headers, o) ==
    [kind |-> kind, url |-> url, headers |-> headers, got |-> o.got, status |-> o.status]

\* lines 138-140: print("ERROR:", e); sys.exit(2)
Raise(printed, e) ==
    /\ err' = e
    /\ stdout' = Append(printed, "ERROR:")
    /\ exit_status' = 2
    /\ pc' = "exit"

\* The responses the index site may give: no response or an error status
\* carries no list.
ReferenceResponses ==
    {[got |-> o.got, status |-> o.status, csv |-> EmptyCsv] :
        o \in {x \in Outcomes : ~x.got \/ RaisesForStatus(x.status)}}
    \cup {[got |-> TRUE, status |-> o.status, csv |-> c] :
            o \in {x \in Outcomes : x.got /\ ~RaisesForStatus(x.status)},
            c \in ReferenceCsvs}

\* lines 125-127 and fetch_nifty50_symbols
FetchNifty50Symbols ==
    /\ pc = "fetch"
    /\ \E r \in ReferenceResponses :
        /\ requests' = Append(requests, Request("reference", NIFTY50_CSV, ReferenceHeaders, r))
        /\ LET col == FirstSymbolColumn(r.csv.header, 1)
               printed == Append(stdout, "Fetching NIFTY-50 list...")
           IN  IF ~r.got THEN
                    /\ Raise(printed, Error("Transport"))
                    /\ UNCHANGED nifty_symbols
               ELSE IF RaisesForStatus(r.status) THEN
                    /\ Raise(printed, Error("HTTPError"))
                    /\ UNCHANGED nifty_symbols
               ELSE IF col = 0 THEN
                    /\ Raise(printed, Error("NoSymbolColumn"))
                    /\ UNCHANGED nifty_symbols
               ELSE /\ nifty_symbols' = SymbolSet(r.csv, col)
                    /\ stdout' = Append(printed, "Discovering deliverable CSV link...")
                    /\ pc' = "discover"
                    /\ UNCHANGED <<err, exit_status>>
    /\ UNCHANGED <<env_url, page, csv_link, csv_text, raw, df, df_nifty, out_file>>

\* lines 47-49: the override is returned as it is
DiscoverOverride ==
    /\ pc = "discover"
    /\ EnvUrlGiven(env_url)
    /\ csv_link' = env_url.value
    /\ pc' = "link"
    /\ UNCHANGED <<env_url, requests, nifty_symbols, page, csv_text, raw, df, df_nifty,
                   stdout, exit_status, out_file, err>>

\* line 50: the warm-up GET; its response is not looked at
DiscoverWarmup ==
    /\ pc = "discover"
    /\ ~EnvUrlGiven(env_url)
    /\ \E o \in Outcomes :
        /\ requests' = Append(requests, Request("warmup", SITE_ROOT, SessionHeaders, o))
        /\ IF ~o.got THEN Raise(stdout, Error("Transport"))
           ELSE /\ pc' = "listing"
                /\ UNCHANGED <<stdout, exit_status, err>>
    /\ UNCHANGED <<env_url, nifty_symbols, page, csv_link, csv_text, raw, df, df_nifty,
                   out_file>>

\* The responses to the listing request: no response or an error status
\* carries no page.
ListingResponses ==
    {[got |-> o.got, status |-> o.status, hrefs |-> <<>>] :
        o \in {x \in Outcomes : ~x.got \/ RaisesForStatus(x.status)}}
    \cup {[got |-> TRUE, status |-> o.status, hrefs |-> h] :
            o \in {x \in Outcomes : x.got /\ ~RaisesForStatus(x.status)},
            h \in Pages}

\* lines 51-71: the listing page and the choice of the link
DiscoverListing ==
    /\ pc = "listing"
    /\ \E o \in ListingResponses :
        /\ requests' = Append(requests, Request("listing", REPORT_PAGE_URL, SessionHeaders, o))
        /\ LET hrefs == o.hrefs
               chosen == ChooseLink(hrefs)
           IN  IF ~o.got THEN
                    /\ Raise(stdout, Error("Transport"))
                    /\ UNCHANGED <<page, csv_link>>
               ELSE IF RaisesForStatus(o.status) THEN
                    /\ Raise(stdout, Error("HTTPError"))
                    /\ UNCHANGED <<page, csv_link>>
               ELSE IF ~chosen.found THEN
                    /\ page' = hrefs
                    /\ Raise(stdout, Error("Discovery"))
                    /\ UNCHANGED csv_link
               ELSE /\ page' = hrefs
                    /\ csv_link' = chosen.link
                    /\ pc' = "link"
                    /\ UNCHANGED <<stdout, exit_status, err>>
    /\ UNCHANGED <<env_url, nifty_symbols, csv_text, raw, df, df_nifty, out_file>>

\* lines 128-129: discover_csv_link has returned, its page is gone, and main
\* prints the link
PrintCsvLink ==
    /\ pc = "link"
    /\ page' = <<>>
    /\ stdout' = Append(stdout, "CSV link:")
    /\ pc' = "download"
    /\ UNCHANGED <<env_url, requests, nifty_symbols, csv_link, csv_text, raw, df, df_nifty,
                   exit_status, out_file, err>>

NoBody == [len |-> 0, csv |-> EmptyCsv]

\* An HTML error page: long enough, and no CSV.
ErrorPage == [len |-> MinBodyLen, csv |-> EmptyCsv]

\* The responses to the download: a request that raised carries no body, a
\* status other than 200 an empty body or an error page.
DownloadResponses ==
    {[got |-> FALSE, status |-> NoResponse.status, body |-> NoBody]}
    \cup {[got |-> TRUE, status |-> st, body |-> b] :
            st \in Statuses \ {200}, b \in {NoBody, ErrorPage}}
    \cup {[got |-> TRUE, status |-> 200, body |-> b] : b \in Bodies}

\* lines 130-131 and download_csv_text
DownloadCsvText ==
    /\ pc = "download"
    /\ \E o \in DownloadResponses :
        /\ requests' = Append(requests, Request("download", csv_link, DownloadHeaders, o))
        /\ LET body == o.body IN
           IF ~o.got THEN
                /\ Raise(stdout, Error("Transport"))
                /\ UNCHANGED csv_text
           ELSE IF DownloadStatusBad(o.status) THEN
                /\ Raise(stdout, Error("DownloadStatus"))
                /\ UNCHANGED csv_text
           ELSE IF BodyTooSmall(body.len) THEN
                /\ Raise(stdout, Error("DownloadSmall"))
                /\ UNCHANGED csv_text
           ELSE /\ csv_text' = body
                /\ stdout' = Append(stdout, "Parsing CSV...")
                /\ pc' = "parse"
                /\ UNCHANGED <<exit_status, err>>
    /\ UNCHANGED <<env_url, nifty_symbols, page, csv_link, raw, df, df_nifty, out_file>>

\* line 132 and parse_deliverable_csv, lines 83-98: with the three columns
\* resolved, line 98 calls .str_strip() on a Series, which has no such
\* attribute, and raises AttributeError.
ParseDeliverableCsv ==
    /\ pc = "parse"
    /\ IF ColumnsMissing(csv_text.csv.header)
       THEN Raise(stdout, SchemaError(csv_text.csv.header))
       ELSE Raise(stdout, Error("AttributeError"))
    /\ UNCHANGED <<env_url, requests, nifty_symbols, page, csv_link, csv_text, raw, df,
                   df_nifty, out_file>>

Init ==
    /\ pc = "fetch"
    /\ env_url \in EnvUrls
    /\ requests = <<>>
    /\ nifty_symbols = {}
    /\ page = <<>>
    /\ csv_link = <<>>
    /\ csv_text = NoBody
    /\ raw = <<>>
    /\ df = EmptyFrame
    /\ df_nifty = EmptyFrame
    /\ stdout = <<>>
    /\ exit_status = -1
    /\ out_file = NoFile
    /\ err = NoError

\* One run of main.  parse_deliverable_csv raises on every input (line 98),
\* so lines 133-137 never run; they are modelled under SpecUnits below.
Next ==
    \/ FetchNifty50Symbols
    \/ DiscoverOverride
    \/ DiscoverWarmup
    \/ DiscoverListing
    \/ PrintCsvLink
    \/ DownloadCsvText
    \/ ParseDeliverableCsv

Spec == Init /\ [][Next]_vars

-----------------------------------------------------------------------------
(* The stages past line 98, on their own: the numeric columns of           *)
(* parse_deliverable_csv (lines 99-112), filter_nifty50 and write_excel,   *)
(* applied to rows and reference sets drawn from bounded sets.             *)

\* The rows line 99 may find: a symbol, and the cells of the two resolved
\* quantity columns.
UnitRow(sy, t, d) == [Symbol |-> <<sy>>, traded |-> t, deliver |-> d]

UnitRows ==
    { UnitRow("TCS", <<"1", ",", "0", "0", "0">>, <<"4", "0", "0">>),
      UnitRow("WIPRO", <<"5", "0", "0">>, <<"2", "5", "0">>),
      UnitRow("INFY", <<"0">>, <<"0">>),
      UnitRow("tcs", <<"3">>, <<"7">>),
      UnitRow("TCS", <<"-", "5">>, <<"3">>),
      UnitRow("WIPRO", <<"abc">>, <<>>),
      UnitRow("INFY", <<"8", "0", "0">>, <<"1", ".", "9">>),
      UnitRow("HDFC", <<"0">>, <<"6">>) }

UnitReferenceSets == { {}, { <<"TCS">>, <<"INFY">> }, { <<"WIPRO">> } }

InitUnits ==
    /\ pc = "numeric"
    /\ env_url \in {e \in EnvUrls : ~e.set}
    /\ requests = <<>>
    /\ nifty_symbols \in UnitReferenceSets
    /\ page = <<>>
    /\ csv_link = <<>>
    /\ csv_text = NoBody
    /\ raw \in SeqsUpTo(UnitRows, MaxUnitRows)
    /\ df = EmptyFrame
    /\ df_nifty = EmptyFrame
    /\ stdout = <<>>
    /\ exit_status = -1
    /\ out_file = NoFile
    /\ err = NoError

\* parse_deliverable_csv, lines 99-112
ParseNumericColumns ==
    /\ pc = "numeric"
    /\ df' = NumericColumns(raw)
    /\ pc' = "filter"
    /\ UNCHANGED <<env_url, requests, nifty_symbols, page, csv_link, csv_text, raw,
                   df_nifty, stdout, exit_status, out_file, err>>

\* main, lines 133-136
FilterNifty50 ==
    /\ pc = "filter"
    /\ LET kept == filter_nifty50(df, nifty_symbols)
       IN  /\ df_nifty' = kept
           /\ stdout' = stdout \o <<"Filtering to NIFTY-50...">>
                            \o (IF Len(kept.rows) = 0
                                THEN <<"Warning: no NIFTY-50 rows matched.">>
                                ELSE <<>>)
    /\ df' = UpperSymbols(df)
    /\ pc' = "write"
    /\ UNCHANGED <<env_url, requests, nifty_symbols, page, csv_link, csv_text, raw,
                   exit_status, out_file, err>>

\* main, line 137, write_excel, and the normal exit
WriteExcel ==
    /\ pc = "write"
    /\ out_file' = write_excel(df_nifty)
    /\ stdout' = Append(stdout, "Wrote")
    /\ exit_status' = 0
    /\ pc' = "exit"
    /\ UNCHANGED <<env_url, requests, nifty_symbols, page, csv_link, csv_text, raw, df,
                   df_nifty, err>>

NextUnits ==
    \/ ParseNumericColumns
    \/ FilterNifty50
    \/ WriteExcel

SpecUnits == InitUnits /\ [][NextUnits]_vars

-----------------------------------------------------------------------------
(* Properties.  They are stated on the tokens themselves, not through the  *)
(* operators above, so that they say what the code is to compute.          *)

HasTok(str, toks) == \E i \in 1..Len(str) : LowerTok(str[i]) \in toks
Kinds(reqs) == [i \in 1..Len(reqs) |-> reqs[i].kind]
IsPrefix(a, b) == Len(a) <= Len(b) /\ a = SubSeq(b, 1, Len(a))
Printed(line) == \E i \in 1..Len(stdout) : stdout[i] = line
Min(S) == CHOOSE i \in S : \A j \in S : i <= j

\* discover_csv_link has been entered and main has moved past its first line
DiscoveryEntered == Printed("Discovering deliverable CSV link...") /\ pc # "discover"
\* parse_deliverable_csv has run
ParseRan == Printed("Parsing CSV...") /\ pc # "parse"
DiscoverRequests == SelectSeq(requests, LAMBDA r : r.kind \in {"warmup", "listing"})
OverrideGiven == env_url.set /\ env_url.value # <<>>

FooHref == <<"/", "a", "/", "foo", ".csv">>
SecurityHref == <<"/", "b", "/", "security", "-", "deliver", "able", ".csv">>

\* ---- C1 ----------------------------------------------------------------
C1_Absolute(href) ==
    IF Len(href) > 0 /\ Head(href) \in {"http://", "https://"} THEN href
    ELSE <<"https://", "www.nseindia.com">> \o href

\* C1: with no override, once the listing page has been read, the link
\* chosen is the first candidate (an href containing ".csv" in any case,
\* made absolute against the site root) whose lower-cased text contains
\* "deliver" or "security"; with no such candidate it is the first candidate;
\* with no candidate at all discovery fails.  For the page ["/a/foo.csv",
\* "/b/security-deliverable.csv"] the second link is chosen, for
\* ["/a/foo.csv"] the first.
C1_SelectionPolicy ==
    LET cand == {i \in 1..Len(page) : HasTok(page[i], {".csv"})}
        kw == {i \in cand : HasTok(C1_Absolute(page[i]), {"deliver", "security"})}
        read == \/ pc = "link" /\ ~OverrideGiven
                \/ pc = "exit" /\ err.kind = "Discovery"
    IN  /\ read =>
            IF kw # {} THEN pc = "link" /\ csv_link = C1_Absolute(page[Min(kw)])
            ELSE IF cand # {} THEN pc = "link" /\ csv_link = C1_Absolute(page[Min(cand)])
            ELSE pc = "exit" /\ err.kind = "Discovery" /\ exit_status = 2
        /\ read /\ page = <<FooHref, SecurityHref>>
            => csv_link = <<"https://", "www.nseindia.com">> \o SecurityHref
        /\ read /\ page = <<FooHref>>
            => csv_link = <<"https://", "www.nseindia.com">> \o FooHref

C1_Witness ==
    /\ pc = "link"
    /\ ~OverrideGiven
    /\ page = <<FooHref, SecurityHref>>
    /\ csv_link = <<"https://", "www.nseindia.com">> \o SecurityHref

\* ---- C2 ----------------------------------------------------------------
C2_Bypass ==
    OverrideGiven /\ DiscoveryEntered
        => csv_link = env_url.value /\ DiscoverRequests = <<>>

C2_WarmupThenListing ==
    ~OverrideGiven =>
        /\ IsPrefix(Kinds(DiscoverRequests), <<"warmup", "listing">>)
        /\ DiscoveryEntered => Len(DiscoverRequests) >= 1
        /\ Len(DiscoverRequests) >= 1 =>
              /\ DiscoverRequests[1].url = <<"https://", "www.nseindia.com">>
              \* whatever the warm-up's status, the listing page is requested next
              /\ DiscoverRequests[1].got =>
                    \/ pc = "listing" /\ err.kind = "none"
                    \/ Len(DiscoverRequests) = 2
        /\ Len(DiscoverRequests) = 2 =>
              DiscoverRequests[2].url =
                  <<"https://", "www.nseindia.com", "/", "report-detail", "/", "eq_security">>

C2_ListingFailsOn(bad) ==
    \A i \in 1..Len(requests) :
        requests[i].kind = "listing" /\ requests[i].got /\ requests[i].status \in bad
            => pc = "exit" /\ exit_status = 2 /\ i = Len(requests)

SymbolHeader(h) == HasTok(h, {"symbol"}) /\ ~HasTok(h, {"series"})
TradedHeader(h) == HasTok(h, {"traded"}) /\ HasTok(h, {"qty", "quantity"})
DeliverHeader(h) == HasTok(h, {"deliver"}) /\ HasTok(h, {"qty", "quantity"})
Matching(columns, Rule(_)) == {i \in 1..Len(columns) : Rule(columns[i])}

ExactlyOneEach(columns) ==
    /\ Cardinality(Matching(columns, SymbolHeader)) = 1
    /\ Cardinality(Matching(columns, TradedHeader)) = 1
    /\ Cardinality(Matching(columns, DeliverHeader)) = 1

SomeUnresolved(columns) ==
    \/ Matching(columns, SymbolHeader) = {}
    \/ Matching(columns, TradedHeader) = {}
    \/ Matching(columns, DeliverHeader) = {}

\* C3: for a CSV in which exactly one column matches each of the three
\* rules, parse_deliverable_csv succeeds and returns one record per input
\* row, in input order.
C3_ParseSucceeds ==
    ParseRan /\ ExactlyOneEach(csv_text.csv.header)
        => /\ err.kind = "none"
           /\ Len(df.rows) = Len(csv_text.csv.rows)

\* C4: parse_deliverable_csv fails with the schema error exactly when one
\* of the three mandatory columns cannot be resolved; the error lists the
\* headers found, and the run ends with no output file.  "Qty Delivered"
\* resolves the delivery column, "Del. Amount" does not.
C4_SchemaError ==
    ParseRan =>
        LET columns == csv_text.csv.header
        IN  /\ err.kind = "Schema" <=> SomeUnresolved(columns)
            /\ err.kind = "Schema" =>
                  /\ err.found = columns
                  /\ pc = "exit" /\ exit_status = 2
                  /\ ~out_file.written
            /\ columns = << <<"SYMBOL">>, <<"Traded", " ", "Qty">>,
                            <<"Qty", " ", "Deliver", "ed">> >>
                  => err.kind # "Schema"
            /\ columns = << <<"SYMBOL">>, <<"Traded", " ", "Qty">>,
                            <<"Del", ".", " ", "Amount">> >>
                  => err.kind = "Schema"

C4_Witness ==
    /\ ParseRan
    /\ csv_text.csv.header = << <<"SYMBOL">>, <<"Traded", " ", "Qty">>,
                                <<"Del", ".", " ", "Amount">> >>
    /\ err.kind = "Schema"
    /\ pc = "exit"

\* ---- C5 ----------------------------------------------------------------
\* C5: a run whose CSV resolves and none of whose symbols is in the
\* reference set ends successfully: the warning is printed, the file is
\* written (empty), and the exit status is not an error.
C5_EmptyFilterSucceeds ==
    LET columns == csv_text.csv.header
        sym == Min(Matching(columns, SymbolHeader))
        symbols == {Upper(Strip(csv_text.csv.rows[i][sym])) :
                        i \in 1..Len(csv_text.csv.rows)}
    IN  pc = "exit" /\ ParseRan /\ ExactlyOneEach(columns)
            /\ symbols \cap nifty_symbols = {}
        => /\ exit_status = 0
           /\ Printed("Warning: no NIFTY-50 rows matched.")
           /\ out_file.written /\ out_file.rows = <<>>

\* ---- C6 ----------------------------------------------------------------
HasStaticHeaders(r) ==
    /\ {"User-Agent", "Referer"} \subseteq DOMAIN r.headers
    /\ r.headers["User-Agent"] = USER_AGENT
    /\ r.headers["Referer"] = "https://www.nseindia.com"

C8_ZeroTradedNoError ==
    LET columns == csv_text.csv.header
        rows == csv_text.csv.rows
        traded == Min(Matching(columns, TradedHeader))
    IN  \A i \in 1..Len(rows) :
            ParseRan /\ ExactlyOneEach(columns) /\ rows[i][traded] = <<"0">>
                => /\ err.kind = "none"
                   /\ Len(df.rows) >= i
                   /\ df.rows[i].DeliveryPct = 0

\* ---- C9 ----------------------------------------------------------------
NormalizedSymbols == { <<"TCS">>, <<"INFY">>, <<"WIPRO">>, <<"HDFC">> }
NthOf(S, n) == CHOOSE i \in S : Cardinality({m \in S : m <= i}) = n
ExampleRaw ==
    << [Symbol |-> <<"TCS">>, traded |-> <<"1", ",", "0", "0", "0">>, deliver |-> <<"4", "0", "0">>],
       [Symbol |-> <<"WIPRO">>, traded |-> <<"5", "0", "0">>, deliver |-> <<"2", "5", "0">>],
       [Symbol |-> <<"INFY">>, traded |-> <<"0">>, deliver |-> <<"0">>] >>
ExampleReference == { <<"TCS">>, <<"INFY">> }

\* C9: for a normalized report (upper-case symbols) filter_nifty50 returns
\* exactly the rows whose symbol is in the reference set, in their order,
\* indexed 0, 1, 2, ..., each row as it was.  Reference set {TCS, INFY} and
\* rows TCS (1000, 400), WIPRO (500, 250), INFY (0, 0) give two rows: TCS
\* with DeliveryPct 40.00 and INFY with DeliveryPct 0.
C9_FilterExact ==
    pc \in {"write", "exit"} /\ (\A i \in 1..Len(raw) : raw[i].Symbol \in NormalizedSymbols) =>
        LET keep == {i \in 1..Len(df.rows) : df.rows[i].Symbol \in nifty_symbols}
            n == Cardinality(keep)
        IN  /\ Len(df.rows) = Len(raw)
            /\ \A i \in 1..Len(raw) : df.rows[i].Symbol = raw[i].Symbol
            /\ Len(df_nifty.rows) = n
            /\ df_nifty.index = [k \in 1..n |-> k - 1]
            /\ \A k \in 1..n : df_nifty.rows[k] = df.rows[NthOf(keep, k)]
            /\ raw = ExampleRaw /\ nifty_symbols = ExampleReference =>
                  /\ Len(df_nifty.rows) = 2
                  /\ df_nifty.rows[1].Symbol = <<"TCS">>
                  /\ df_nifty.rows[1].TradedQty = 1000
                  /\ df_nifty.rows[1].DeliveryQty = 400
                  /\ df_nifty.rows[1].DeliveryPct = 4000
                  /\ df_nifty.rows[2].Symbol = <<"INFY">>
                  /\ df_nifty.rows[2].DeliveryPct = 0

C9_Witness ==
    /\ pc = "write"
    /\ raw = ExampleRaw
    /\ nifty_symbols = ExampleReference
    /\ Len(df_nifty.rows) = 2
    /\ df_nifty.index = <<0, 1>>

\* ---- C10 ---------------------------------------------------------------
\* the response that fails its stage
FailedRequest(r) ==
    \/ ~r.got
    \/ r.kind \in {"reference", "listing"} /\ r.status >= 400
    \/ r.kind = "download" /\ r.status # 200

StageOrder == <<"reference", "warmup", "listing", "download">>

\* C10: a failure is terminal.  The requests are issued in stage order, each
\* at most once; a request that fails is the last one, and a download with a
\* status other than 200 or a body under 50 characters is never parsed; a
\* pending error means the run has ended with exit status 2, the error
\* printed last and no output file; nothing runs after the exit; and the
\* output file exists only in a run without error.
C10_FailFast ==
    /\ \E f \in [1..Len(requests) -> 1..Len(StageOrder)] :
          /\ \A i \in 1..Len(requests) : requests[i].kind = StageOrder[f[i]]
          /\ \A i, j \in 1..Len(requests) : i < j => f[i] < f[j]
    /\ \A i \in 1..Len(requests) :
          FailedRequest(requests[i]) =>
              i = Len(requests) /\ pc = "exit" /\ err.kind # "none"
    /\ Printed("Parsing CSV...") =>
          /\ csv_text.len >= 50
          /\ requests[Len(requests)].kind = "download"
          /\ requests[Len(requests)].status = 200
    /\ err.kind # "none" =>
          /\ pc = "exit" /\ exit_status = 2
          /\ stdout[Len(stdout)] = "ERROR:"
          /\ ~out_file.written
    /\ pc = "exit" /\ exit_status # 0 => err.kind # "none" /\ exit_status = 2
    /\ pc = "exit" => ~ENABLED Next
    /\ out_file.written => err.kind = "none" /\ exit_status # 2
    /\ pc # "exit" => exit_status = -1 /\ err.kind = "none"

C10_Witness ==
    /\ pc = "exit"
    /\ exit_status = 2
    /\ Len(requests) > 0
    /\ requests[Len(requests)].kind = "download"
    /\ requests[Len(requests)].got
    /\ requests[Len(requests)].status = 300
    /\ ~Printed("Parsing CSV...")
    /\ stdout[Len(stdout)] = "ERROR:"

====
